---- MODULE Spec2Model ----
(***************************************************************************)
(* Farming & trading prototype: the session controller (Game), the plots   *)
(* (Tile), the crops (PlantInstance) and the autonomous workers (Worker).  *)
(*                                                                         *)
(* Units.  dt is what clock.tick(FPS) returns: whole milliseconds          *)
(* (main.py:576 divides by 1000.0).  Times are kept in milliseconds, money *)
(* in thousandths of a dollar and price multipliers in thousandths, so the *)
(* products the code forms (upkeep * dt, base_price * multiplier) are      *)
(* whole numbers.  Worker positions are whole pixels; a float quotient is  *)
(* rounded to the nearest whole number (RoundDiv).                         *)
(*                                                                         *)
(* Worker, Tile and PlantInstance are the classes of worker.py, tile.py    *)
(* and plant_instance.py: a plot has a pending seed, a worker carries a     *)
(* crop.  The Game these classes talk to is the latest variant of the       *)
(* prototype; main.py holds an earlier Game, with classes of its own.       *)
(* worker.py calls Game.pick_crop_from_tile and Game.deposit_carried_crop   *)
(* and reads Tile.pending_plant_type; main.py defines neither method and    *)
(* never sets pending_plant_type (its click handler plants at once), so     *)
(* these three operations follow the specification's section 4.2.  Every    *)
(* other Game operation is the code of main.py, line by line.               *)
(*                                                                         *)
(* Specifications: Spec and SpecTimer start from a fresh session;          *)
(* SpecFarm, SpecLate, SpecPoor, SpecGrow, SpecRace, SpecCrew, SpecSilos,  *)
(* SpecOver, SpecWalk and SpecQueue resume a save file through             *)
(* load_from_dict; SpecLoad starts the program on save files that may be   *)
(* missing or damaged; SpecPrices and SpecHistory run the price walk       *)
(* alone.  SpecWalk and SpecQueue run the session to its end: they state   *)
(* that the loop of Game.run keeps iterating (weak fairness).              *)
(* ticks_left and intents_left bound the length of a run.                   *)
(***************************************************************************)
EXTENDS Integers, Sequences, FiniteSets, TLC

VARIABLES money, game_time, game_over, paused, tiles, workers, inventory,
          num_silos, silo_mode, selected_silo_tile, selected_plant_type,
          price_update_timer, price_histories, ticks_left, intents_left

vars == <<money, game_time, game_over, paused, tiles, workers, inventory,
          num_silos, silo_mode, selected_silo_tile, selected_plant_type,
          price_update_timer, price_histories, ticks_left, intents_left>>

----------------------------------------------------------------------------
(* Bounds of the model *)

\* iterations of the loop that call update, and player intents handled, in a
\* run that starts from a fresh session
MaxTicks == 2
MaxIntents == 4
\* the same for a run that resumes a saved farm
FarmTicks == 10
FarmIntents == 2
\* the same for a run that resumes a session saved just before its end
LateTicks == 2
LateIntents == 3
\* price updates applied in a row to a price state
MaxUpdates == 3
\* workers the player may hold at once
MaxWorkers == 2

\* iterations and intents in a run that sows a plot and waits for the crop
GrowTicks == 3
GrowIntents == 2
\* launches of the program, each on a save file of its own
MaxLaunches == 4
\* iterations and intents in a run in which two workers go for the same plot
RaceTicks == 4
RaceIntents == 2
\* iterations and intents in a run in which the workers walk to a ripe plot
\* during the last six seconds of the session (twenty frames of 0.3 s)
WalkTicks == 21
WalkIntents == 1
\* iterations and intents in a run in which a seed is queued during the last
\* nine seconds of the session (thirty frames of 0.3 s)
QueueTicks == 31
QueueIntents == 1
\* iterations and intents in a run that ends the session and goes on clicking
OverTicks == 2
OverIntents == 3
\* iterations and intents in a run that resumes a save and builds silos
SiloTicks == 1
SiloIntents == 3
\* iterations and intents in a run that watches the price-update timer
TimerTicks == 5
TimerIntents == 1
\* iterations and intents in a run in which workers are hired and dismissed
CrewTicks == 3
CrewIntents == 3
\* iterations and intents in a run that resumes a nearly broke session
PoorTicks == 2
PoorIntents == 3

----------------------------------------------------------------------------
(* Program constants *)

MS == 1000
GAME_DURATION == 600
STARTING_MONEY == 30000
LAND_COST == 500
WORKER_COST == 2000
WORKER_UPKEEP_PER_SECOND == 5
SILO_COST == 3000
BASE_STORAGE == 50
SILO_CAPACITY == 50
PRICE_UPDATE_INTERVAL == 20
PRICE_HISTORY_LENGTH == 10
GRID_COLS == 10
TILE_SIZE == 64
GRID_MARGIN_X == 20
GRID_MARGIN_Y == 20
WINDOW_WIDTH == 1024
WINDOW_HEIGHT == 768
UI_PANEL_HEIGHT == 160
WORKER_SPEED == 70
\* arrival: dist < 4, compared as dist^2 < 16
ARRIVAL_DIST == 4
\* random.uniform(-0.08, 0.08), in thousandths
MAX_DELTA == 80
\* max(0.5, min(1.5, m)), in thousandths
MULT_MIN == 500
MULT_MAX == 1500

\* the crops of the catalog that the model plays with (create_plant_types
\* lists four; the first two are kept)
PlantNames == <<"Wheat", "Corn">>
Crops == {PlantNames[i] : i \in 1..Len(PlantNames)}
NoCrop == "none"

plant_types ==
    [c \in Crops |->
        IF c = "Wheat" THEN [grow_time |-> 15, seed_cost |-> 50, sell_price |-> 80]
        ELSE [grow_time |-> 25, seed_cost |-> 80, sell_price |-> 150]]

\* the plots of the 10 x 6 grid that the model plays with, as indexes
\* y * GRID_COLS + x into Game.tiles, in the order create_tiles appends them
Cells == <<37, 38, 39>>
TileIds == 1..Len(Cells)
NoTile == 0

\* where reset_state, buy_worker and load_from_dict put a new Worker
SPAWN_X == WINDOW_WIDTH \div 2
SPAWN_Y == WINDOW_HEIGHT \div 2 - UI_PANEL_HEIGHT

\* frame lengths (ms) the loop delivers: a slow frame and a stall long
\* enough for Wheat to ripen
Dts == {300, 15000}
\* a run of slow frames only
SlowDts == {300}
\* frames of up to a whole price-update interval (20 s)
LongDts == {300, 15000, 20000}

\* the extreme draws of random.uniform(-0.08, 0.08)
Deltas == {-MAX_DELTA, MAX_DELTA}

----------------------------------------------------------------------------
(* Arithmetic helpers *)

\* n / d rounded to the nearest whole number, d > 0
RoundDiv(n, d) ==
    IF n >= 0 THEN (2 * n + d) \div (2 * d) ELSE -((2 * (-n) + d) \div (2 * d))

RECURSIVE SqrtIter(_, _, _)
SqrtIter(n, lo, hi) ==
    IF lo >= hi THEN lo
    ELSE LET mid == (lo + hi + 1) \div 2
         IN IF mid * mid <= n THEN SqrtIter(n, mid, hi) ELSE SqrtIter(n, lo, mid - 1)

\* x ** 0.5 rounded to the nearest whole number
Sqrt(n) ==
    LET r == SqrtIter(n, 0, 46340)
    IN IF r < 46340 /\ n - r * r > r THEN r + 1 ELSE r

RECURSIVE SumSeq(_)
SumSeq(s) == IF s = <<>> THEN 0 ELSE Head(s) + SumSeq(Tail(s))

----------------------------------------------------------------------------
(* Tile, PlantInstance *)

NoPlant == [type |-> NoCrop, planted_time |-> 0]

PlantInstance(pt, planted_time) == [type |-> pt, planted_time |-> planted_time]

FreshTile ==
    [purchased |-> FALSE, plant |-> NoPlant, pending_plant_type |-> NoCrop,
     has_silo |-> FALSE]

CenterX(t) == GRID_MARGIN_X + (Cells[t] % GRID_COLS) * TILE_SIZE + (TILE_SIZE - 2) \div 2
CenterY(t) == GRID_MARGIN_Y + (Cells[t] \div GRID_COLS) * TILE_SIZE + (TILE_SIZE - 2) \div 2

HasPlant(tile) == tile.plant.type # NoCrop

\* grow_time compared as it stands with a time in milliseconds
ready_in_milliseconds(plant, current_time) ==
    plant.type # NoCrop
    /\ (current_time - plant.planted_time) >= plant_types[plant.type].grow_time

\* PlantInstance.is_ready
is_ready(plant, current_time) ==
    plant.type # NoCrop
    /\ (current_time - plant.planted_time) >= plant_types[plant.type].grow_time * MS

can_plant(tile) ==
    /\ tile.purchased
    /\ ~HasPlant(tile)
    /\ tile.pending_plant_type = NoCrop
    /\ ~tile.has_silo

----------------------------------------------------------------------------
(* Game: derived quantities *)

storage_capacity(nsilos) == BASE_STORAGE + nsilos * SILO_CAPACITY

inventory_total(inv) == SumSeq([i \in 1..Len(PlantNames) |-> inv[PlantNames[i]]])

\* sell price and seed price of a crop, in thousandths of a dollar
SellPrice(ph, c) == ph[c].base_price * ph[c].current_multiplier

SeedPrice(ph, c) ==
    RoundDiv(SellPrice(ph, c) * plant_types[c].seed_cost, plant_types[c].sell_price)

FreshPriceHistories ==
    [c \in Crops |->
        [base_price |-> plant_types[c].sell_price,
         current_multiplier |-> MS,
         history |-> <<plant_types[c].sell_price * MS>>]]

FreshWorker == [x |-> SPAWN_X, y |-> SPAWN_Y, target_tile |-> NoTile,
                carried_plant_type |-> NoCrop]

----------------------------------------------------------------------------
(* Game operations the workers call (specification section 4.2).  g is the *)
(* part of the Game a worker update reads and writes:                      *)
(* [tiles, inventory, workers, num_silos].                                 *)

\* pick_crop_from_tile(tile) -> optional PlantType
pick_result(g, t, now) ==
    IF HasPlant(g.tiles[t]) /\ is_ready(g.tiles[t].plant, now)
       /\ inventory_total(g.inventory) < storage_capacity(g.num_silos)
    THEN g.tiles[t].plant.type
    ELSE NoCrop

\* a pick that leaves the plant on the plot
pick_keeps_plant(g, t, now) == g

pick_crop_from_tile(g, t, now) ==
    IF pick_result(g, t, now) # NoCrop
    THEN [g EXCEPT !.tiles[t].plant = NoPlant]
    ELSE g

\* a silo that takes every delivery
deposit_always(g) == TRUE

\* deposit_carried_crop(plant_type, tile) -> bool
deposit_ok(g) == inventory_total(g.inventory) < storage_capacity(g.num_silos)

deposit_carried_crop(g, pt) ==
    IF deposit_ok(g) THEN [g EXCEPT !.inventory[pt] = @ + 1] ELSE g

----------------------------------------------------------------------------
(* Worker *)

Dist2(w, t) ==
    (CenterX(t) - w.x) * (CenterX(t) - w.x) + (CenterY(t) - w.y) * (CenterY(t) - w.y)

\* the last tile of the list at the least distance (dist2 <= best_dist)
nearest_tile_last(w, S) ==
    IF S = {} THEN NoTile
    ELSE CHOOSE t \in S :
            \A u \in S : Dist2(w, t) < Dist2(w, u) \/ (Dist2(w, t) = Dist2(w, u) /\ t >= u)

\* the first tile of the list, in list order, at the least distance
nearest_tile(w, S) ==
    IF S = {} THEN NoTile
    ELSE CHOOSE t \in S :
            \A u \in S : Dist2(w, t) < Dist2(w, u) \/ (Dist2(w, t) = Dist2(w, u) /\ t <= u)

find_target(w, ts, current_time) ==
    IF w.carried_plant_type # NoCrop
    THEN nearest_tile(w, {t \in TileIds : ts[t].has_silo})
    ELSE LET pending_tiles ==
                {t \in TileIds : ts[t].pending_plant_type # NoCrop
                                 /\ ts[t].purchased /\ ~ts[t].has_silo}
             ready_tiles == {t \in TileIds : is_ready(ts[t].plant, current_time)}
         IN IF pending_tiles # {} THEN nearest_tile(w, pending_tiles)
            ELSE nearest_tile(w, ready_tiles)

\* a worker that looks for a job only when it has no target
keeps_its_target(w, ts, now) == w.target_tile = NoTile

\* Worker._needs_new_target
needs_new_target(w, ts, now) ==
    IF w.target_tile = NoTile THEN TRUE
    ELSE IF w.carried_plant_type # NoCrop THEN ~ts[w.target_tile].has_silo
    ELSE IF ts[w.target_tile].pending_plant_type # NoCrop THEN FALSE
    ELSE ~is_ready(ts[w.target_tile].plant, now)

\* a plant dated to the start of the session
planted_at_zero(pt, now) == PlantInstance(pt, 0)

\* the plant a worker puts on arrival at a plot with a pending seed
planted_on_arrival(pt, now) == PlantInstance(pt, now)

\* a worker that lets go of its crop whether or not the deposit was taken
carried_dropped(ok, carried) == NoCrop

\* what the worker carries after a delivery attempt
carried_after_deposit(ok, carried) == IF ok THEN NoCrop ELSE carried

\* a worker that takes the crop of the plot whatever the pick returned
carried_without_asking(picked, tile) == tile.plant.type

\* what the worker carries after a pick attempt on a plot
carried_after_pick(picked, tile) == IF picked # NoCrop THEN picked ELSE NoCrop

\* a worker that keeps its target when the attempt was refused
target_kept_when_refused(done, t) == IF done THEN NoTile ELSE t

\* self.target_tile = None, whatever the attempt on plot t came to
target_after_arrival(done, t) == NoTile

\* Worker._on_arrival
on_arrival(g, i, now) ==
    LET w == g.workers[i]
        t == w.target_tile
        tile == g.tiles[t]
    IN IF w.carried_plant_type # NoCrop /\ tile.has_silo
       THEN \* deliver
            LET g1 == deposit_carried_crop(g, w.carried_plant_type)
            IN [g1 EXCEPT !.workers[i].carried_plant_type =
                              carried_after_deposit(deposit_ok(g), @),
                          !.workers[i].target_tile =
                              target_after_arrival(deposit_ok(g), t)]
       ELSE IF w.carried_plant_type = NoCrop /\ tile.pending_plant_type # NoCrop
               /\ ~HasPlant(tile)
       THEN \* plant the pending seed
            [g EXCEPT !.tiles[t].plant = planted_on_arrival(tile.pending_plant_type, now),
                      !.tiles[t].pending_plant_type = NoCrop,
                      !.workers[i].target_tile = target_after_arrival(TRUE, t)]
       ELSE IF w.carried_plant_type = NoCrop /\ HasPlant(tile) /\ is_ready(tile.plant, now)
       THEN \* pick up the ready plant
            LET picked == pick_result(g, t, now)
                g1 == pick_crop_from_tile(g, t, now)
            IN [g1 EXCEPT !.workers[i].carried_plant_type =
                              carried_after_pick(picked, tile),
                          !.workers[i].target_tile =
                              target_after_arrival(picked # NoCrop, t)]
       ELSE g

worker_update(g, i, dt, now) ==
    LET w0 == g.workers[i]
        w == IF needs_new_target(w0, g.tiles, now)
             THEN [w0 EXCEPT !.target_tile = find_target(w0, g.tiles, now)]
             ELSE w0
        g1 == [g EXCEPT !.workers[i] = w]
    IN IF w.target_tile = NoTile THEN g1
       ELSE LET dx == CenterX(w.target_tile) - w.x
                dy == CenterY(w.target_tile) - w.y
                d2 == dx * dx + dy * dy
                dist == Sqrt(d2)
                step == (WORKER_SPEED * dt) \div MS
            IN IF d2 < ARRIVAL_DIST * ARRIVAL_DIST THEN on_arrival(g1, i, now)
               ELSE [g1 EXCEPT !.workers[i].x = @ + RoundDiv(dx * step, dist),
                               !.workers[i].y = @ + RoundDiv(dy * step, dist)]

\* for w in self.workers: w.update(self, dt)
RECURSIVE update_workers(_, _, _, _)
update_workers(g, i, dt, now) ==
    IF i > Len(g.workers) THEN g
    ELSE update_workers(worker_update(g, i, dt, now), i + 1, dt, now)

----------------------------------------------------------------------------
(* Game.update_prices *)

Clamp(lo, hi, v) == IF v < lo THEN lo ELSE IF v > hi THEN hi ELSE v

\* the walk without max(0.5, min(1.5, ...))
price_step_unclamped(ph, delta) ==
    LET m1 == ph.current_multiplier + delta + RoundDiv(MS - ph.current_multiplier, 10)
        h1 == Append(ph.history, ph.base_price * m1)
    IN [ph EXCEPT !.current_multiplier = m1,
                  !.history = IF Len(h1) > PRICE_HISTORY_LENGTH THEN Tail(h1) ELSE h1]

\* the body of the loop of update_prices, for one crop
price_step(ph, delta) ==
    LET m1 == ph.current_multiplier + delta + RoundDiv(MS - ph.current_multiplier, 10)
        m2 == Clamp(MULT_MIN, MULT_MAX, m1)
        h1 == Append(ph.history, ph.base_price * m2)
    IN [ph EXCEPT !.current_multiplier = m2,
                  !.history = IF Len(h1) > PRICE_HISTORY_LENGTH THEN Tail(h1) ELSE h1]

update_prices(phs, deltas) == [c \in Crops |-> price_step(phs[c], deltas[c])]

----------------------------------------------------------------------------
(* The session: state after construction, player intents, the tick *)

\* Game.reset_state, without a save file to load: the state after construction
Init ==
    /\ paused = FALSE
    /\ game_time = 0
    /\ game_over = FALSE
    /\ money = STARTING_MONEY * MS
    /\ num_silos = 0
    /\ inventory = [c \in Crops |-> 0]
    /\ price_histories = FreshPriceHistories
    /\ selected_plant_type = PlantNames[1]
    /\ tiles = [t \in TileIds |-> FreshTile]
    /\ workers = <<FreshWorker>>
    /\ silo_mode = FALSE
    /\ selected_silo_tile = NoTile
    /\ price_update_timer = 0
    /\ ticks_left = MaxTicks
    /\ intents_left = MaxIntents

\* one event taken from pygame.event.get() by Game.handle_events
Event ==
    /\ intents_left > 0
    /\ intents_left' = intents_left - 1
    /\ UNCHANGED ticks_left

\* step 1 with money > LAND_COST in place of money >= LAND_COST
BuyLandAboveCost(t) ==
    /\ Event
    /\ ~tiles[t].purchased
    /\ IF money > LAND_COST * MS /\ ~game_over
       THEN /\ money' = money - LAND_COST * MS
            /\ tiles' = [tiles EXCEPT ![t].purchased = TRUE]
       ELSE UNCHANGED <<money, tiles>>
    /\ selected_silo_tile' = NoTile
    /\ UNCHANGED <<game_time, game_over, paused, workers, inventory, num_silos,
                   silo_mode, selected_plant_type, price_update_timer,
                   price_histories>>

\* handle_tile_click, step 1: an unpurchased plot is bought
BuyLand(t) ==
    /\ Event
    /\ ~tiles[t].purchased
    /\ IF money >= LAND_COST * MS /\ ~game_over
       THEN /\ money' = money - LAND_COST * MS
            /\ tiles' = [tiles EXCEPT ![t].purchased = TRUE]
       ELSE UNCHANGED <<money, tiles>>
    /\ selected_silo_tile' = NoTile
    /\ UNCHANGED <<game_time, game_over, paused, workers, inventory, num_silos,
                   silo_mode, selected_plant_type, price_update_timer,
                   price_histories>>

\* step 2 with the silo put on a new Tile object
PlaceSiloOnNewTile(t) ==
    /\ Event
    /\ tiles[t].purchased
    /\ silo_mode
    /\ IF ~tiles[t].has_silo /\ ~HasPlant(tiles[t]) /\ money >= SILO_COST * MS
          /\ ~game_over
       THEN /\ money' = money - SILO_COST * MS
            /\ tiles' = [tiles EXCEPT ![t] = [FreshTile EXCEPT !.has_silo = TRUE]]
            /\ num_silos' = num_silos + 1
            /\ selected_silo_tile' = t
       ELSE UNCHANGED <<money, tiles, num_silos, selected_silo_tile>>
    /\ silo_mode' = FALSE
    /\ UNCHANGED <<game_time, game_over, paused, workers, inventory,
                   selected_plant_type, price_update_timer, price_histories>>

\* handle_tile_click, step 2: one placement attempt in silo mode
PlaceSilo(t) ==
    /\ Event
    /\ tiles[t].purchased
    /\ silo_mode
    /\ IF ~tiles[t].has_silo /\ ~HasPlant(tiles[t]) /\ money >= SILO_COST * MS
          /\ ~game_over
       THEN /\ money' = money - SILO_COST * MS
            /\ tiles' = [tiles EXCEPT ![t].has_silo = TRUE]
            /\ num_silos' = num_silos + 1
            /\ selected_silo_tile' = t
       ELSE UNCHANGED <<money, tiles, num_silos, selected_silo_tile>>
    /\ silo_mode' = FALSE
    /\ UNCHANGED <<game_time, game_over, paused, workers, inventory,
                   selected_plant_type, price_update_timer, price_histories>>

\* handle_tile_click, step 3: a click on a silo selects it
SelectSilo(t) ==
    /\ Event
    /\ tiles[t].purchased
    /\ ~silo_mode
    /\ tiles[t].has_silo
    /\ selected_silo_tile' = t
    /\ UNCHANGED <<money, game_time, game_over, paused, tiles, workers, inventory,
                   num_silos, silo_mode, selected_plant_type, price_update_timer,
                   price_histories>>

\* a seed is sold only when money is left over
seed_needs_change(m, seed_price) == m > seed_price

\* handle_tile_click, step 4: if self.money >= seed_price
seed_affordable(m, seed_price) == m >= seed_price

\* handle_tile_click, step 4: the seed of the selected crop is bought and
\* reserved on the plot (queue_seed)
QueueSeed(t) ==
    /\ Event
    /\ tiles[t].purchased
    /\ ~silo_mode
    /\ ~tiles[t].has_silo
    /\ selected_silo_tile' = NoTile
    /\ IF can_plant(tiles[t]) /\ ~game_over
          /\ seed_affordable(money, SeedPrice(price_histories, selected_plant_type))
       THEN /\ money' = money - SeedPrice(price_histories, selected_plant_type)
            /\ tiles' = [tiles EXCEPT ![t].pending_plant_type = selected_plant_type]
       ELSE UNCHANGED <<money, tiles>>
    /\ UNCHANGED <<game_time, game_over, paused, workers, inventory, num_silos,
                   silo_mode, selected_plant_type, price_update_timer,
                   price_histories>>

\* a click handler whose step 1 does not test tile.purchased
ClickTileSellsLandAgain(t) ==
    /\ Event
    /\ IF money >= LAND_COST * MS /\ ~game_over
       THEN /\ money' = money - LAND_COST * MS
            /\ tiles' = [tiles EXCEPT ![t].purchased = TRUE]
       ELSE UNCHANGED <<money, tiles>>
    /\ selected_silo_tile' = NoTile
    /\ UNCHANGED <<game_time, game_over, paused, workers, inventory, num_silos,
                   silo_mode, selected_plant_type, price_update_timer,
                   price_histories>>

\* Game.handle_tile_click on a position inside plot t
ClickTile(t) == BuyLand(t) \/ PlaceSilo(t) \/ SelectSilo(t) \/ QueueSeed(t)

\* Game.handle_tile_click on a grid position that hits no plot
ClickNoTile ==
    /\ Event
    /\ selected_silo_tile' = NoTile
    /\ UNCHANGED <<money, game_time, game_over, paused, tiles, workers, inventory,
                   num_silos, silo_mode, selected_plant_type, price_update_timer,
                   price_histories>>

\* the plant selection buttons
SelectPlant(c) ==
    /\ Event
    /\ selected_plant_type' = c
    /\ silo_mode' = FALSE
    /\ UNCHANGED <<money, game_time, game_over, paused, tiles, workers, inventory,
                   num_silos, selected_silo_tile, price_update_timer,
                   price_histories>>

\* a worker hired whatever the money
BuyWorkerOnCredit ==
    /\ Event
    /\ Len(workers) < MaxWorkers
    /\ IF ~game_over
       THEN /\ money' = money - WORKER_COST * MS
            /\ workers' = Append(workers, FreshWorker)
       ELSE UNCHANGED <<money, workers>>
    /\ UNCHANGED <<game_time, game_over, paused, tiles, inventory, num_silos,
                   silo_mode, selected_silo_tile, selected_plant_type,
                   price_update_timer, price_histories>>

\* the Buy Worker button
BuyWorker ==
    /\ Event
    /\ Len(workers) < MaxWorkers
    /\ IF money >= WORKER_COST * MS /\ ~game_over
       THEN /\ money' = money - WORKER_COST * MS
            /\ workers' = Append(workers, FreshWorker)
       ELSE UNCHANGED <<money, workers>>
    /\ UNCHANGED <<game_time, game_over, paused, tiles, inventory, num_silos,
                   silo_mode, selected_silo_tile, selected_plant_type,
                   price_update_timer, price_histories>>

\* a dismissal that takes the worker hired first (pop(0))
DismissFirstWorker ==
    /\ Event
    /\ IF workers # <<>> /\ ~game_over
       THEN workers' = Tail(workers)
       ELSE UNCHANGED workers
    /\ UNCHANGED <<money, game_time, game_over, paused, tiles, inventory, num_silos,
                   silo_mode, selected_silo_tile, selected_plant_type,
                   price_update_timer, price_histories>>

\* a dismissal that does not ask whether the session is over
DismissWorkerAfterTheEnd ==
    /\ Event
    /\ IF workers # <<>>
       THEN workers' = SubSeq(workers, 1, Len(workers) - 1)
       ELSE UNCHANGED workers
    /\ UNCHANGED <<money, game_time, game_over, paused, tiles, inventory, num_silos,
                   silo_mode, selected_silo_tile, selected_plant_type,
                   price_update_timer, price_histories>>

\* the Dismiss Worker button
DismissWorker ==
    /\ Event
    /\ IF workers # <<>> /\ ~game_over
       THEN workers' = SubSeq(workers, 1, Len(workers) - 1)
       ELSE UNCHANGED workers
    /\ UNCHANGED <<money, game_time, game_over, paused, tiles, inventory, num_silos,
                   silo_mode, selected_silo_tile, selected_plant_type,
                   price_update_timer, price_histories>>

\* the Build Silo toggle button: Button.handle_event flips toggled, then the
\* callback copies it into silo_mode
SiloModeToggle ==
    /\ Event
    /\ IF game_over
       THEN /\ silo_mode' = FALSE
            /\ UNCHANGED selected_silo_tile
       ELSE /\ silo_mode' = ~silo_mode
            /\ selected_silo_tile' = IF ~silo_mode THEN NoTile ELSE selected_silo_tile
    /\ UNCHANGED <<money, game_time, game_over, paused, tiles, workers, inventory,
                   num_silos, selected_plant_type, price_update_timer,
                   price_histories>>

\* a sale at the base prices, whatever the multipliers
sell_at_base_price(m, inv, phs) ==
    m + SumSeq([i \in 1..Len(PlantNames) |->
                    inv[PlantNames[i]] * phs[PlantNames[i]].base_price * MS])

\* Game.sell_inventory
sell_inventory_money(m, inv, phs) ==
    m + SumSeq([i \in 1..Len(PlantNames) |->
                    inv[PlantNames[i]] * SellPrice(phs, PlantNames[i])])

\* a Sell All button that takes events whether or not a silo is selected
SellAllAnywhere ==
    /\ Event
    /\ IF ~game_over
       THEN /\ money' = sell_inventory_money(money, inventory, price_histories)
            /\ inventory' = [c \in Crops |-> 0]
       ELSE UNCHANGED <<money, inventory>>
    /\ UNCHANGED <<game_time, game_over, paused, tiles, workers, num_silos,
                   silo_mode, selected_silo_tile, selected_plant_type,
                   price_update_timer, price_histories>>

\* the Sell All button, which takes events only while a silo is selected
SellAll ==
    /\ Event
    /\ selected_silo_tile # NoTile
    /\ IF ~game_over
       THEN /\ money' = sell_inventory_money(money, inventory, price_histories)
            /\ inventory' = [c \in Crops |-> 0]
       ELSE UNCHANGED <<money, inventory>>
    /\ UNCHANGED <<game_time, game_over, paused, tiles, workers, num_silos,
                   silo_mode, selected_silo_tile, selected_plant_type,
                   price_update_timer, price_histories>>

\* a pause toggle that does not ask whether the session is over
TogglePauseAnyTime ==
    /\ Event
    /\ paused' = ~paused
    /\ UNCHANGED <<money, game_time, game_over, tiles, workers, inventory, num_silos,
                   silo_mode, selected_silo_tile, selected_plant_type,
                   price_update_timer, price_histories>>

\* the Pause button and the P key
TogglePause ==
    /\ Event
    /\ paused' = IF ~game_over THEN ~paused ELSE paused
    /\ UNCHANGED <<money, game_time, game_over, tiles, workers, inventory, num_silos,
                   silo_mode, selected_silo_tile, selected_plant_type,
                   price_update_timer, price_histories>>

\* the Reset button
ResetGame ==
    /\ Event
    /\ paused' = FALSE
    /\ game_time' = 0
    /\ game_over' = FALSE
    /\ money' = STARTING_MONEY * MS
    /\ num_silos' = 0
    /\ inventory' = [c \in Crops |-> 0]
    /\ price_histories' = FreshPriceHistories
    /\ selected_plant_type' = PlantNames[1]
    /\ tiles' = [t \in TileIds |-> FreshTile]
    /\ workers' = <<FreshWorker>>
    /\ silo_mode' = FALSE
    /\ selected_silo_tile' = NoTile
    /\ price_update_timer' = 0

\* the end test with > in place of >=
time_is_up_late(now) == now > GAME_DURATION * MS

\* if self.game_time >= GAME_DURATION
time_is_up(now) == now >= GAME_DURATION * MS

\* Game.update(dt)
\* a timer that starts again from zero when the prices are updated
timer_reset_to_zero(timer) == timer - timer

\* the price-update timer after a due update: the overflow is carried
timer_after_update(timer) == timer - PRICE_UPDATE_INTERVAL * MS

\* an upkeep that is charged only as far as the money lasts
upkeep_stops_at_zero(m, n, dt) ==
    IF m - WORKER_UPKEEP_PER_SECOND * n * dt < 0 THEN 0
    ELSE m - WORKER_UPKEEP_PER_SECOND * n * dt

\* money after the upkeep of n workers over dt
money_after_upkeep(m, n, dt) == m - WORKER_UPKEEP_PER_SECOND * n * dt

Update(dt) ==
    LET now == game_time + dt
        g0 == [tiles |-> tiles, inventory |-> inventory, workers |-> workers,
               num_silos |-> num_silos]
        g1 == update_workers(g0, 1, dt, now)
        timer == price_update_timer + dt
    IN /\ game_time' = now
       /\ game_over' = time_is_up(now)
       /\ paused' = IF time_is_up(now) THEN TRUE ELSE paused
       /\ money' = money_after_upkeep(money, Len(workers), dt)
       /\ tiles' = g1.tiles
       /\ inventory' = g1.inventory
       /\ workers' = g1.workers
       /\ IF timer >= PRICE_UPDATE_INTERVAL * MS
          THEN /\ price_update_timer' = timer_after_update(timer)
               /\ \E deltas \in [Crops -> Deltas] :
                     price_histories' = update_prices(price_histories, deltas)
          ELSE /\ price_update_timer' = timer
               /\ UNCHANGED price_histories
       /\ UNCHANGED <<num_silos, silo_mode, selected_silo_tile, selected_plant_type>>

\* a loop that calls update in every iteration, and an update that runs
\* whatever game_over says
TickAlwaysUpdates(dt) ==
    /\ ticks_left > 0
    /\ ticks_left' = ticks_left - 1
    /\ UNCHANGED intents_left
    /\ Update(dt)

\* one iteration of the loop of Game.run after its events are handled: update
\* is called unless the session is paused or over
Tick(dt) ==
    /\ ticks_left > 0
    /\ ticks_left' = ticks_left - 1
    /\ UNCHANGED intents_left
    /\ IF ~paused /\ ~game_over
       THEN Update(dt)
       ELSE UNCHANGED <<money, game_time, game_over, paused, tiles, workers,
                       inventory, num_silos, silo_mode, selected_silo_tile,
                       selected_plant_type, price_update_timer, price_histories>>

Next ==
    \/ \E t \in TileIds : ClickTile(t)
    \/ ClickNoTile
    \/ \E c \in Crops : SelectPlant(c)
    \/ BuyWorker
    \/ DismissWorker
    \/ SiloModeToggle
    \/ SellAll
    \/ TogglePause
    \/ ResetGame
    \/ \E dt \in Dts : Tick(dt)

Spec == Init /\ [][Next]_vars

----------------------------------------------------------------------------
(* Snapshots: Game.to_dict and Game.load_from_dict.  A session is the       *)
(* record of the Game's fields; a snapshot is the document to_dict builds.  *)

Cur ==
    [money |-> money, game_time |-> game_time, game_over |-> game_over,
     paused |-> paused, tiles |-> tiles, workers |-> workers,
     inventory |-> inventory, num_silos |-> num_silos, silo_mode |-> silo_mode,
     selected_silo_tile |-> selected_silo_tile,
     selected_plant_type |-> selected_plant_type,
     price_update_timer |-> price_update_timer,
     price_histories |-> price_histories]

\* the session reset_state builds
FreshSession ==
    [money |-> STARTING_MONEY * MS, game_time |-> 0, game_over |-> FALSE,
     paused |-> FALSE, tiles |-> [t \in TileIds |-> FreshTile],
     workers |-> <<FreshWorker>>, inventory |-> [c \in Crops |-> 0],
     num_silos |-> 0, silo_mode |-> FALSE, selected_silo_tile |-> NoTile,
     selected_plant_type |-> PlantNames[1], price_update_timer |-> 0,
     price_histories |-> FreshPriceHistories]

\* A save document is a record of the fields of the JSON object.  A numeric
\* field holds a number; non_numeric names the fields (as paths) whose JSON
\* value is not a number, a string such as "abc", and whose entry in the
\* record then means nothing.  to_dict writes numbers only.
to_dict(s) ==
    [non_numeric |-> {},
     money |-> s.money,
     game_time |-> s.game_time,
     num_silos |-> s.num_silos,
     workers |-> Len(s.workers),
     inventory |-> s.inventory,
     selected_plant_type |-> s.selected_plant_type,
     price_update_timer |-> s.price_update_timer,
     price_histories |->
        [c \in Crops |->
            [base_price |-> s.price_histories[c].base_price,
             current_multiplier |-> s.price_histories[c].current_multiplier,
             history |-> s.price_histories[c].history]],
     tiles |->
        [t \in TileIds |->
            [purchased |-> s.tiles[t].purchased,
             has_silo |-> s.tiles[t].has_silo,
             plant |-> s.tiles[t].plant]]]

Max(a, b) == IF a >= b THEN a ELSE b

\* the workers load_from_dict builds from the stored count
loaded_workers(count) ==
    LET n == Max(0, count)
    IN IF n = 0 THEN <<FreshWorker>> ELSE [i \in 1..n |-> FreshWorker]

\* float(data.get(...)) of lines 401-403 raises on a value that is no number
load_raises(data) ==
    \/ <<"money">> \in data.non_numeric
    \/ <<"game_time">> \in data.non_numeric
    \/ <<"price_update_timer">> \in data.non_numeric

\* load_from_dict on the session self, as load_state calls it, when it
\* does not raise
load_from_dict(self, data) ==
    LET loaded_tiles ==
            [t \in TileIds |->
                [purchased |-> data.tiles[t].purchased,
                 has_silo |-> data.tiles[t].has_silo,
                 plant |-> IF data.tiles[t].plant.type \in Crops /\ data.tiles[t].purchased
                           THEN PlantInstance(data.tiles[t].plant.type,
                                              data.tiles[t].plant.planted_time)
                           ELSE NoPlant,
                 pending_plant_type |-> self.tiles[t].pending_plant_type]]
        counted == Cardinality({t \in TileIds : loaded_tiles[t].has_silo})
    IN [money |-> data.money,
        game_time |-> data.game_time,
        game_over |-> time_is_up(data.game_time),
        paused |-> time_is_up(data.game_time),
        tiles |-> loaded_tiles,
        workers |-> IF <<"workers">> \in data.non_numeric
                    THEN loaded_workers(Len(self.workers))
                    ELSE loaded_workers(data.workers),
        inventory |-> [c \in Crops |->
                          IF <<"inventory", c>> \in data.non_numeric THEN 0
                          ELSE data.inventory[c]],
        num_silos |-> Max(counted, data.num_silos),
        silo_mode |-> FALSE,
        selected_silo_tile |-> NoTile,
        selected_plant_type |->
            IF data.selected_plant_type \in Crops THEN data.selected_plant_type
            ELSE PlantNames[1],
        price_update_timer |-> data.price_update_timer,
        price_histories |->
            [c \in Crops |->
                [base_price |-> data.price_histories[c].base_price,
                 current_multiplier |-> data.price_histories[c].current_multiplier,
                 history |-> IF data.price_histories[c].history = <<>>
                             THEN <<data.price_histories[c].base_price * MS>>
                             ELSE data.price_histories[c].history]]]

\* Game.__init__: reset_state, then load_state on the save file
Constructed(data) == load_from_dict(FreshSession, data)

\* a load_state that keeps what load_from_dict had assigned when it raised
load_state_keeps_partial(self, file) ==
    IF ~file.exists \/ ~file.is_dict THEN self
    ELSE IF <<"money">> \in file.data.non_numeric THEN self
    ELSE IF load_raises(file.data) THEN [self EXCEPT !.money = file.data.money]
    ELSE load_from_dict(self, file.data)

\* Game.load_state on what is at SAVE_FILE: nothing (exists is false), JSON
\* that is not an object (is_dict is false) or the object data
load_state(self, file) ==
    IF ~file.exists THEN self
    ELSE IF ~file.is_dict \/ load_raises(file.data) THEN FreshSession
    ELSE load_from_dict(self, file.data)

\* Game.__init__ with whatever is at SAVE_FILE
ConstructedFrom(file) == load_state(FreshSession, file)

StartsAs(s) ==
    /\ money = s.money
    /\ game_time = s.game_time
    /\ game_over = s.game_over
    /\ paused = s.paused
    /\ tiles = s.tiles
    /\ workers = s.workers
    /\ inventory = s.inventory
    /\ num_silos = s.num_silos
    /\ silo_mode = s.silo_mode
    /\ selected_silo_tile = s.selected_silo_tile
    /\ selected_plant_type = s.selected_plant_type
    /\ price_update_timer = s.price_update_timer
    /\ price_histories = s.price_histories

----------------------------------------------------------------------------
(* Save files an earlier run of the game can have written *)

\* prices after ten or more updates whose draws cancelled the reversion
SettledPrices ==
    [c \in Crops |->
        [base_price |-> plant_types[c].sell_price,
         current_multiplier |-> MS,
         history |-> [i \in 1..PRICE_HISTORY_LENGTH |-> plant_types[c].sell_price * MS]]]

\* a farm on the three plots: ripe Wheat on the plots of `sown`, the plots
\* of `bare` bought and empty, a silo on each plot of `silos`, the other
\* plots not bought, two workers, and `stored` Wheat in the inventory
FarmSave(at, stored, cash, sown, bare, silos) ==
    [non_numeric |-> {},
     money |-> cash * MS,
     game_time |-> at,
     num_silos |-> Cardinality(silos),
     workers |-> 2,
     inventory |-> [c \in Crops |-> IF c = "Wheat" THEN stored ELSE 0],
     selected_plant_type |-> "Wheat",
     price_update_timer |-> at % (PRICE_UPDATE_INTERVAL * MS),
     price_histories |-> SettledPrices,
     tiles |->
        [t \in TileIds |->
            IF t \in silos THEN [purchased |-> TRUE, has_silo |-> TRUE, plant |-> NoPlant]
            ELSE IF t \in sown
            THEN [purchased |-> TRUE, has_silo |-> FALSE,
                  plant |-> PlantInstance("Wheat", at - 20 * MS)]
            ELSE [purchased |-> t \in bare, has_silo |-> FALSE, plant |-> NoPlant]]]

\* saved 0.3 s before the 300th second, when a price update is due, with the
\* inventory of capacity 100 one short of full or full, or with an empty
\* inventory and plot 2 bare
FarmSaves ==
    {FarmSave(300 * MS - 300, stored, 3100, {1, 2}, {}, {3}) : stored \in {99, 100}}
    \cup {FarmSave(300 * MS - 300, 0, 3100, {1}, {2}, {3})}

\* saved 0.3 s before the end, with more or less money than a plot costs
LateSaves ==
    {FarmSave(GAME_DURATION * MS - 300, 5, cash, {1}, {}, {3}) : cash \in {400, 500, 3100}}

InitFarm ==
    /\ \E data \in FarmSaves : StartsAs(Constructed(data))
    /\ ticks_left = FarmTicks
    /\ intents_left = FarmIntents

InitLate ==
    /\ \E data \in LateSaves : StartsAs(Constructed(data))
    /\ ticks_left = LateTicks
    /\ intents_left = LateIntents

\* a run that resumes a saved farm
NextSlow ==
    \/ \E t \in TileIds : ClickTile(t)
    \/ ClickNoTile
    \/ \E c \in Crops : SelectPlant(c)
    \/ BuyWorker
    \/ DismissWorker
    \/ SiloModeToggle
    \/ SellAll
    \/ TogglePause
    \/ ResetGame
    \/ \E dt \in SlowDts : Tick(dt)

SpecFarm == InitFarm /\ [][NextSlow]_vars

\* a run that resumes a session saved 0.3 s before its end
SpecLate == InitLate /\ [][Next]_vars

\* saved at 100 s by a player who is nearly broke: one worker, plot 1 bought
\* and bare, a silo on plot 3, and as much money as a Wheat seed (50) or a
\* Corn seed (80) costs, or a dollar less, or one dollar in all
PoorSaves ==
    {[FarmSave(100 * MS, 0, cash, {}, {1}, {3}) EXCEPT !.workers = 1] :
        cash \in {1, 49, 50, 79, 80}}

InitPoor ==
    /\ \E data \in PoorSaves : StartsAs(Constructed(data))
    /\ ticks_left = PoorTicks
    /\ intents_left = PoorIntents

\* a run that resumes the save of a player who can afford next to nothing
SpecPoor == InitPoor /\ [][NextSlow]_vars

\* saved at 100 s with one worker, plot 1 bought and bare, a silo on plot 3
GrowSaves ==
    {[FarmSave(100 * MS, stored, 3100, {}, {1}, {3}) EXCEPT !.workers = 1] :
        stored \in {0, 5}}

InitGrow ==
    /\ \E data \in GrowSaves : StartsAs(Constructed(data))
    /\ ticks_left = GrowTicks
    /\ intents_left = GrowIntents

\* a run in which a seed is sown and the loop then stalls for a crop's
\* grow time
SpecGrow == InitGrow /\ [][Next]_vars

\* saved at 100 s with a silo on plot 3 and money for a second worker: one
\* worker and plot 1 bare, or two workers and ripe Wheat on plot 1
RaceSaves ==
    {[FarmSave(100 * MS, 0, 3100, {}, {1}, {3}) EXCEPT !.workers = 1],
     FarmSave(100 * MS, 0, 3100, {1}, {2}, {3})}

InitRace ==
    /\ \E data \in RaceSaves : StartsAs(Constructed(data))
    /\ ticks_left = RaceTicks
    /\ intents_left = RaceIntents

\* the player sows plots and hires workers, and does nothing else
NextRace ==
    \/ \E t \in TileIds : QueueSeed(t)
    \/ BuyWorker
    \/ \E dt \in Dts : Tick(dt)

\* a run in which two workers go for the same plot
SpecRace == InitRace /\ [][NextRace]_vars

\* saved six seconds before the end with one worker, an empty storage, a silo
\* on plot 3 and ripe Wheat on plot 1 or on plot 2
WalkSaves ==
    {[FarmSave(GAME_DURATION * MS - 6000, 0, 3100, {t}, {}, {3}) EXCEPT !.workers = 1] :
        t \in {1, 2}}

InitWalk ==
    /\ \E data \in WalkSaves : StartsAs(Constructed(data))
    /\ ticks_left = WalkTicks
    /\ intents_left = WalkIntents

\* the loop runs on slow frames, and the player may hire a second worker
NextWalk ==
    \/ BuyWorker
    \/ \E dt \in SlowDts : Tick(dt)

\* an iteration of the loop of Game.run: of the steps of NextWalk, the one
\* that counts ticks_left down, possible as long as ticks_left > 0
LoopIterates == ticks_left > 0 /\ ticks_left' = ticks_left - 1

\* the loop of Game.run never stops iterating (while running: ...): an
\* iteration is taken as long as one is possible
SpecWalk == InitWalk /\ [][NextWalk]_vars /\ WF_ticks_left(LoopIterates)

\* saved nine seconds before the end with one worker, an empty storage, ripe
\* Wheat on plot 1 and plot 2 bare; plot 3 has a silo or is not bought
QueueSaves ==
    {[FarmSave(GAME_DURATION * MS - 9000, 0, 3100, {1}, {2}, silos) EXCEPT !.workers = 1] :
        silos \in {{}, {3}}}

InitQueue ==
    /\ \E data \in QueueSaves : StartsAs(Constructed(data))
    /\ ticks_left = QueueTicks
    /\ intents_left = QueueIntents

\* the loop runs on slow frames, and the player may queue a seed
NextQueue ==
    \/ \E t \in TileIds : QueueSeed(t)
    \/ \E dt \in SlowDts : Tick(dt)

\* the session runs to its end: the loop never stops iterating
SpecQueue == InitQueue /\ [][NextQueue]_vars /\ WF_ticks_left(LoopIterates)

\* saved 0.3 s before the end with money for land, a silo or a worker, 5
\* Wheat in the storage, Wheat on plot 1 and a silo on plot 3; plot 2 is
\* bought and bare, or not bought
OverSaves ==
    {FarmSave(GAME_DURATION * MS - 300, 5, 3100, {1}, bare, {3}) : bare \in {{}, {2}}}

InitOver ==
    /\ \E data \in OverSaves : StartsAs(Constructed(data))
    /\ ticks_left = OverTicks
    /\ intents_left = OverIntents

\* a run that ends the session, with a player who goes on clicking
SpecOver == InitOver /\ [][Next]_vars

\* save documents with one silo plot (plot 3) whose num_silos field says 0, 1
\* or 2; plot 1 is bought and bare, and there is money for one more silo
SiloSaves ==
    {[FarmSave(100 * MS, 0, 3100, {}, {1}, {3}) EXCEPT !.num_silos = n] :
        n \in 0..2}

InitSilos ==
    /\ \E data \in SiloSaves : StartsAs(Constructed(data))
    /\ ticks_left = SiloTicks
    /\ intents_left = SiloIntents

\* the player clicks plots, with or without the silo mode, or resets
NextSilos ==
    \/ \E t \in TileIds : ClickTile(t)
    \/ SiloModeToggle
    \/ ResetGame
    \/ \E dt \in SlowDts : Tick(dt)

\* a run that resumes a save with a silo and builds another
SpecSilos == InitSilos /\ [][NextSilos]_vars

InitTimer ==
    /\ StartsAs(FreshSession)
    /\ ticks_left = TimerTicks
    /\ intents_left = TimerIntents

\* the loop runs on frames of up to 20 s, and the player may pause
NextTimer ==
    \/ TogglePause
    \/ \E dt \in LongDts : Tick(dt)

\* a fresh session left to run, to watch the price-update timer
SpecTimer == InitTimer /\ [][NextTimer]_vars

\* saved 0.9 s before the end with two workers, ripe Wheat on plot 1 and as
\* much money as a worker costs (2000), a little less, or more
CrewSaves ==
    {FarmSave(GAME_DURATION * MS - 900, 0, cash, {1}, {2}, {3}) :
        cash \in {1900, 2000, 3100}}

InitCrew ==
    /\ \E data \in CrewSaves : StartsAs(Constructed(data))
    /\ ticks_left = CrewTicks
    /\ intents_left = CrewIntents

\* the player hires and dismisses workers, and does nothing else
NextCrew ==
    \/ BuyWorker
    \/ DismissWorker
    \/ \E dt \in Dts : Tick(dt)

\* a run in which workers are hired and dismissed up to the session's end
SpecCrew == InitCrew /\ [][NextCrew]_vars

----------------------------------------------------------------------------
(* The start of the program on a save file that may be missing or damaged *)

\* the numeric fields of a save document that hold a string instead: none,
\* each of five fields alone, or two of them
Damage ==
    {{}, {<<"money">>}, {<<"game_time">>}, {<<"price_update_timer">>},
     {<<"workers">>}, {<<"inventory", "Wheat">>},
     {<<"workers">>, <<"inventory", "Wheat">>}, {<<"game_time">>, <<"workers">>}}

\* save documents of a farm (Wheat on plot 1, plot 2 bare, a silo on plot 3,
\* two workers, 5 Wheat and 2 Corn stored) in which some numeric fields hold
\* a string, the inventory has a key "Rice", and the selected crop and the
\* crop on plot 1 may be the unknown "Rice"
DamagedSaves ==
    {LET good == FarmSave(100 * MS, 5, cash, {1}, {2}, {3})
     IN [good EXCEPT !.non_numeric = bad,
                     !.selected_plant_type = selected,
                     !.tiles[1].plant.type = sown,
                     !.inventory = [c \in Crops \cup {"Rice"} |->
                                       IF c = "Wheat" THEN 5
                                       ELSE IF c = "Corn" THEN 2 ELSE 7]] :
        cash \in {400, 3100}, bad \in Damage,
        selected \in {"Corn", "Rice"}, sown \in {"Wheat", "Rice"}}

\* what the program can find at SAVE_FILE
SaveFiles ==
    {[exists |-> e, is_dict |-> FALSE, data |-> FarmSave(100 * MS, 5, 3100, {1}, {2}, {3})] :
        e \in BOOLEAN}
    \cup {[exists |-> TRUE, is_dict |-> TRUE, data |-> d] : d \in DamagedSaves}

InitLoad ==
    /\ StartsAs(FreshSession)
    /\ ticks_left = MaxLaunches
    /\ intents_left = 0

\* the program is started: Game.__init__ runs reset_state, then load_state
Launch(file) ==
    /\ ticks_left > 0
    /\ ticks_left' = ticks_left - 1
    /\ UNCHANGED intents_left
    /\ LET s == ConstructedFrom(file)
       IN /\ money' = s.money
          /\ game_time' = s.game_time
          /\ game_over' = s.game_over
          /\ paused' = s.paused
          /\ tiles' = s.tiles
          /\ workers' = s.workers
          /\ inventory' = s.inventory
          /\ num_silos' = s.num_silos
          /\ silo_mode' = s.silo_mode
          /\ selected_silo_tile' = s.selected_silo_tile
          /\ selected_plant_type' = s.selected_plant_type
          /\ price_update_timer' = s.price_update_timer
          /\ price_histories' = s.price_histories

NextLoad == \E file \in SaveFiles : Launch(file)

SpecLoad == InitLoad /\ [][NextLoad]_vars

----------------------------------------------------------------------------
(* The price walk on its own: update_prices applied to price states that    *)
(* earlier updates have driven towards either end of the band.               *)

\* the prices after n updates that all drew delta for every crop
RECURSIVE PricesAfter(_, _)
PricesAfter(n, delta) ==
    IF n = 0 THEN FreshPriceHistories
    ELSE update_prices(PricesAfter(n - 1, delta), [c \in Crops |-> delta])

\* updates behind the price state a walk starts from
WalkedUpdates == 0..12

InitPrices ==
    /\ \E n \in WalkedUpdates, delta \in Deltas :
          StartsAs([FreshSession EXCEPT !.price_histories = PricesAfter(n, delta)])
    /\ ticks_left = MaxUpdates
    /\ intents_left = 0

\* one call of update_prices, as Game.update makes it when the timer is due
PriceUpdate ==
    /\ ticks_left > 0
    /\ ticks_left' = ticks_left - 1
    /\ \E deltas \in [Crops -> Deltas] :
          price_histories' = update_prices(price_histories, deltas)
    /\ UNCHANGED <<money, game_time, game_over, paused, tiles, workers, inventory,
                   num_silos, silo_mode, selected_silo_tile, selected_plant_type,
                   price_update_timer, intents_left>>

SpecPrices == InitPrices /\ [][PriceUpdate]_vars

\* save documents whose price histories have one entry less than
\* PRICE_HISTORY_LENGTH, as many, or one more
HistorySaves ==
    {[FarmSave(100 * MS, 5, 3100, {1}, {2}, {3}) EXCEPT
         !.price_histories =
            [c \in Crops |->
                [@[c] EXCEPT !.history =
                    [i \in 1..n |-> plant_types[c].sell_price * MS]]]] :
        n \in (PRICE_HISTORY_LENGTH - 1)..(PRICE_HISTORY_LENGTH + 1)}

InitHistory ==
    /\ \E data \in HistorySaves : StartsAs(Constructed(data))
    /\ ticks_left = MaxUpdates
    /\ intents_left = 0

\* the price walk of a session that was loaded from a save file
SpecHistory == InitHistory /\ [][PriceUpdate]_vars

----------------------------------------------------------------------------
(* Properties of the session.  A step that handles a player intent is seen  *)
(* by intents_left going down, a loop iteration by ticks_left going down.   *)

EventStep == intents_left' = intents_left - 1
TickStep == ticks_left' = ticks_left - 1

SeedQueuedOn(t) ==
    tiles[t].pending_plant_type = NoCrop /\ tiles'[t].pending_plant_type # NoCrop

PlantAppearsOn(t) == ~HasPlant(tiles[t]) /\ HasPlant(tiles'[t])

\* a worker that stood within arrival distance of plot t, stands there still
\* and has dropped its target
WorkerArrivedAt(t) ==
    \E i \in 1..Len(workers) :
        /\ i <= Len(workers')
        /\ Dist2(workers[i], t) < ARRIVAL_DIST * ARRIVAL_DIST
        /\ workers'[i].x = workers[i].x /\ workers'[i].y = workers[i].y
        /\ workers'[i].target_tile = NoTile

LandSaleDue(t) == ~tiles[t].purchased /\ money >= LAND_COST * MS /\ ~game_over

LandBoughtOn(t) == ~tiles[t].purchased /\ tiles'[t].purchased

\* C3: buy_land succeeds exactly when the plot is not purchased, money is at
\* least the land cost and the session is not over.  While that holds a click
\* on the plot buys it.  A click on a plot that is not purchased deducts
\* exactly the land cost and marks the plot purchased when it holds (30,000
\* becomes 29,500) and leaves money and the plots unchanged when it does
\* not; a plot becomes purchased by such a click only.
BuyLandExactlyWhenDue ==
    /\ [](\A t \in TileIds :
            (LandSaleDue(t) /\ intents_left > 0) =>
                ENABLED (BuyLand(t) /\ LandBoughtOn(t)))
    /\ [][\A t \in TileIds :
            /\ BuyLand(t) =>
                  IF LandSaleDue(t)
                  THEN /\ money' = money - LAND_COST * MS
                       /\ tiles' = [tiles EXCEPT ![t].purchased = TRUE]
                  ELSE money' = money /\ tiles' = tiles
            /\ LandBoughtOn(t) => (LandSaleDue(t) /\ BuyLand(t))
       ]_vars

\* the first plot of a new session has been bought for 500
FirstPlotBought ==
    /\ money = (STARTING_MONEY - LAND_COST) * MS
    /\ game_time = 0
    /\ Cardinality({t \in TileIds : tiles[t].purchased}) = 1

SiloPlacedOn(t) == ~tiles[t].has_silo /\ tiles'[t].has_silo

PurchasedIsOneWay ==
    [][ResetGame \/ \A t \in TileIds : tiles[t].purchased => tiles'[t].purchased]_vars

\* a purchased plot that intents and loop iterations have since passed over
PurchasedPlotKept ==
    /\ \E t \in TileIds : tiles[t].purchased
    /\ \E t \in TileIds : tiles[t].has_silo
    /\ ticks_left < MaxTicks
    /\ game_time > 0

\* C6: after any number of price updates every crop's multiplier lies in
\* [0.5, 1.5].
MultiplierInBand ==
    \A c \in Crops :
        /\ price_histories[c].current_multiplier >= MULT_MIN
        /\ price_histories[c].current_multiplier <= MULT_MAX

\* an update has just held one crop at the top of the band while another
\* crop moved away from it
MultiplierHeldAtTop ==
    /\ ticks_left < MaxUpdates
    /\ \E c \in Crops :
          /\ price_histories[c].current_multiplier = MULT_MAX
          /\ \E d \in Crops : price_histories[d].current_multiplier < MULT_MAX

\* C7: game_over is one-way.  It becomes true, together with paused, in the
\* loop iteration in which game_time first reaches the session duration, and
\* in no other step; once true it stays true in every step, toggle_pause
\* included, except the reset of the session.
GameOverIsOneWay ==
    /\ [](~game_over => game_time < GAME_DURATION * MS)
    /\ [][
          /\ (~game_over /\ game_over') =>
                /\ TickStep
                /\ game_time' >= GAME_DURATION * MS
                /\ paused'
          /\ (~game_over /\ game_time' >= GAME_DURATION * MS) =>
                (game_over' /\ paused')
          /\ (game_over /\ ~ResetGame) => game_over'
          /\ (game_over /\ TogglePause) => (game_over' /\ paused')
       ]_vars

\* the session ended when game_time reached the duration, and every intent
\* and loop iteration of the run has been spent
SessionEnded ==
    /\ game_over /\ paused
    /\ game_time = GAME_DURATION * MS
    /\ intents_left = 0 /\ ticks_left = 0

\* C8: a snapshot round-trips.  The session built by load_from_dict from
\* to_dict of the current session has the same money, game_time, inventory,
\* per-plot purchased flag, silo flag, plant and pending seed, price history
\* and multiplier per crop, the same number of workers (none included) and
\* the same carried crop per worker.
SnapshotRoundTrip ==
    LET loaded == Constructed(to_dict(Cur))
    IN /\ loaded.money = money
       /\ loaded.game_time = game_time
       /\ loaded.inventory = inventory
       /\ \A t \in TileIds :
             /\ loaded.tiles[t].purchased = tiles[t].purchased
             /\ loaded.tiles[t].has_silo = tiles[t].has_silo
             /\ loaded.tiles[t].plant = tiles[t].plant
             /\ loaded.tiles[t].pending_plant_type = tiles[t].pending_plant_type
       /\ \A c \in Crops :
             /\ loaded.price_histories[c].history = price_histories[c].history
             /\ loaded.price_histories[c].current_multiplier =
                   price_histories[c].current_multiplier
       /\ Len(loaded.workers) = Len(workers)
       /\ \A i \in 1..Len(workers) :
             i <= Len(loaded.workers) =>
                 loaded.workers[i].carried_plant_type = workers[i].carried_plant_type

\* a loop iteration that called update
UpdateStep == TickStep /\ game_time' # game_time

Carrying(w) == w.carried_plant_type # NoCrop

AtPlot(w, t) == Dist2(w, t) < ARRIVAL_DIST * ARRIVAL_DIST

\* the workers that delivered crop c in the step
Delivered(c) ==
    {i \in 1..Len(workers) :
        workers[i].carried_plant_type = c /\ ~Carrying(workers'[i])}

\* C9: pick_crop_from_tile at the storage boundary.  With inventory_total
\* equal to storage_capacity an update picks nothing: every plant stays and
\* no worker starts to carry.  A worker without a crop that has arrived at
\* its target, a ripe plot no earlier worker stands on, while no worker
\* carries a crop, picks the plant when inventory_total is below capacity
\* (capacity - 1 included): the plot loses its plant, the worker carries
\* that crop and the inventory is unchanged.  A plant leaves a plot in an
\* update only into the hands of a worker standing there, and only while
\* inventory_total was below capacity.
PickAtStorageBoundary ==
    [][UpdateStep =>
        LET full == inventory_total(inventory) >= storage_capacity(num_silos)
        IN /\ full =>
                /\ \A t \in TileIds : HasPlant(tiles[t]) => tiles'[t].plant = tiles[t].plant
                /\ \A i \in 1..Len(workers) :
                      ~Carrying(workers[i]) => ~Carrying(workers'[i])
           /\ \A t \in TileIds, i \in 1..Len(workers) :
                 (/\ \A j \in 1..Len(workers) : ~Carrying(workers[j])
                  /\ workers[i].target_tile = t
                  /\ AtPlot(workers[i], t)
                  /\ is_ready(tiles[t].plant, game_time')
                  /\ \A j \in 1..(i - 1) : ~AtPlot(workers[j], t)) =>
                     /\ workers'[i].target_tile = NoTile
                     /\ inventory' = inventory
                     /\ IF full
                        THEN tiles'[t].plant = tiles[t].plant /\ ~Carrying(workers'[i])
                        ELSE /\ ~HasPlant(tiles'[t])
                             /\ workers'[i].carried_plant_type = tiles[t].plant.type
           /\ \A t \in TileIds :
                 (HasPlant(tiles[t]) /\ ~HasPlant(tiles'[t])) =>
                     /\ ~full
                     /\ is_ready(tiles[t].plant, game_time')
                     /\ \E i \in 1..Len(workers) :
                           /\ ~Carrying(workers[i])
                           /\ AtPlot(workers[i], t)
                           /\ workers'[i].carried_plant_type = tiles[t].plant.type
                           /\ workers'[i].target_tile = NoTile
           /\ \A c \in Crops : inventory'[c] = inventory[c] + Cardinality(Delivered(c))
      ]_vars

\* a worker stands on a ripe plot with empty hands and no target while the
\* storage is full: its pick was refused
PickRefusedWhenFull ==
    /\ inventory_total(inventory) = storage_capacity(num_silos)
    /\ game_time > 300 * MS
    /\ \E t \in TileIds, i \in 1..Len(workers) :
          /\ is_ready(tiles[t].plant, game_time)
          /\ AtPlot(workers[i], t)
          /\ ~Carrying(workers[i])
          /\ workers[i].target_tile = NoTile

\* the plot worker i heads for in an update that ends at time now
HeadsFor(i, now) ==
    IF needs_new_target(workers[i], tiles, now)
    THEN find_target(workers[i], tiles, now)
    ELSE workers[i].target_tile

\* the workers that reach a silo with a crop in the update
ArrivesWithCrop(now) ==
    {i \in 1..Len(workers) :
        /\ Carrying(workers[i])
        /\ HeadsFor(i, now) # NoTile
        /\ AtPlot(workers[i], HeadsFor(i, now))}

\* C10: deposit_carried_crop succeeds exactly while inventory_total is below
\* storage_capacity.  A worker that reaches a silo with a crop hands it over
\* when the inventory, with the deliveries of the workers updated before it,
\* is below capacity, and then carries nothing; at capacity the deposit
\* fails and the worker carries the same crop after the arrival.  Either way
\* it drops its target.  The inventory of each crop grows by one per
\* delivery of that crop and by nothing else, and never passes capacity.
DepositAtStorageBoundary ==
    [][UpdateStep =>
        LET cap == storage_capacity(num_silos)
            arrivers == ArrivesWithCrop(game_time')
            before(i) == Cardinality({j \in arrivers : j < i})
        IN /\ \A i \in 1..Len(workers) :
                 Carrying(workers[i]) =>
                     IF i \in arrivers /\ inventory_total(inventory) + before(i) < cap
                     THEN ~Carrying(workers'[i]) /\ workers'[i].target_tile = NoTile
                     ELSE /\ workers'[i].carried_plant_type = workers[i].carried_plant_type
                          /\ i \in arrivers => workers'[i].target_tile = NoTile
           /\ \A c \in Crops : inventory'[c] = inventory[c] + Cardinality(Delivered(c))
           /\ inventory_total(inventory) <= cap => inventory_total(inventory') <= cap
      ]_vars

\* a worker stands on the silo plot with its crop still in hand and no
\* target while the storage is full: its deposit was refused
DepositRefusedWhenFull ==
    /\ inventory_total(inventory) = storage_capacity(num_silos)
    /\ \E t \in TileIds, i \in 1..Len(workers) :
          /\ tiles[t].has_silo
          /\ AtPlot(workers[i], t)
          /\ Carrying(workers[i])
          /\ workers[i].target_tile = NoTile

\* what the inventory is worth at the current prices: per crop, the count
\* times base_price times multiplier
RECURSIVE WorthOf(_)
WorthOf(S) ==
    IF S = {} THEN 0
    ELSE LET c == CHOOSE c \in S : TRUE
         IN inventory[c] * price_histories[c].base_price
                         * price_histories[c].current_multiplier
            + WorthOf(S \ {c})

\* C11: sell_inventory adds to money, for every crop, count times the
\* current effective sell price (3 Wheat at 80 add 240) and sets every
\* inventory slot to 0; with an empty inventory money is unchanged; plots,
\* workers and prices are unchanged.
SaleAtCurrentPrices ==
    [][(SellAll /\ ~game_over) =>
          /\ money' = money + WorthOf(Crops)
          /\ \A c \in Crops : inventory'[c] = 0
          /\ inventory_total(inventory) = 0 => money' = money
          /\ tiles' = tiles /\ workers' = workers /\ num_silos' = num_silos
          /\ price_histories' = price_histories
          /\ price_update_timer' = price_update_timer
      ]_vars

\* the whole inventory of the saved farm was sold after the price update of
\* the first iteration: money is the saved 3100, less the upkeep of the two
\* workers, plus the Wheat at its new price
SoldAfterPriceUpdate ==
    /\ inventory_total(inventory) = 0
    /\ Len(workers) = 2
    /\ price_histories["Wheat"].current_multiplier # MS
    /\ \E n \in {99, 100} :
          money = 3100 * MS
                  - WORKER_UPKEEP_PER_SECOND * 2 * (game_time - (300 * MS - 300))
                  + n * plant_types["Wheat"].sell_price
                      * price_histories["Wheat"].current_multiplier

AgeAtUpdate(t) == game_time' - tiles[t].plant.planted_time

\* C13: no plant is removed by a worker before it is ready: whenever an
\* update takes a plant off a plot, game_time - planted_time >= grow_time
\* holds at that moment.  The plant is harvestable exactly from
\* planted_time + grow_time (15 s for Wheat): a sole idle worker standing on
\* the only planted plot picks the plant in the first update in which its
\* age has reached grow_time, storage permitting.
NoPickBeforeReady ==
    [][UpdateStep =>
         \A t \in TileIds :
            /\ (HasPlant(tiles[t]) /\ ~HasPlant(tiles'[t])) =>
                  AgeAtUpdate(t) >= plant_types[tiles[t].plant.type].grow_time * MS
            /\ (/\ ~game_over'
                /\ HasPlant(tiles[t])
                /\ AgeAtUpdate(t) >= plant_types[tiles[t].plant.type].grow_time * MS
                /\ \A u \in TileIds : u # t => ~HasPlant(tiles[u])
                /\ \A u \in TileIds : tiles[u].pending_plant_type = NoCrop
                /\ Len(workers) = 1
                /\ ~Carrying(workers[1])
                /\ AtPlot(workers[1], t)
                /\ inventory_total(inventory) < storage_capacity(num_silos)) =>
                  /\ ~HasPlant(tiles'[t])
                  /\ workers'[1].carried_plant_type = tiles[t].plant.type
      ]_vars

\* the worker sowed Wheat on plot 1 at 100.6 s and picked it in the update
\* at 115.6 s, at the age of exactly 15 s
PickedAtGrowTime ==
    /\ game_time = 100 * MS + 600 + plant_types["Wheat"].grow_time * MS
    /\ Len(workers) = 1
    /\ workers[1].carried_plant_type = "Wheat"
    /\ ~HasPlant(tiles[1])

\* the load of the document raises part-way: a numeric field that
\* load_from_dict converts without a guard holds a string
FailsPartWay(file) ==
    /\ file.exists /\ file.is_dict
    /\ file.data.non_numeric
          \cap {<<"money">>, <<"game_time">>, <<"price_update_timer">>} # {}

\* C14: a start on a missing or corrupt save file never leaves a partly
\* loaded session: when the file is missing, is not a JSON object, or its
\* load fails part-way (after money was overwritten, say), the session is
\* the one a fresh reset_state builds.
BadSaveStartsFresh ==
    [][\A file \in SaveFiles :
          ((~file.exists \/ ~file.is_dict \/ FailsPartWay(file)) /\ Launch(file)) =>
             /\ money' = STARTING_MONEY * MS
             /\ game_time' = 0 /\ ~game_over' /\ ~paused'
             /\ \A t \in TileIds :
                   /\ ~tiles'[t].purchased /\ ~tiles'[t].has_silo
                   /\ ~HasPlant(tiles'[t])
                   /\ tiles'[t].pending_plant_type = NoCrop
             /\ Len(workers') = 1 /\ ~Carrying(workers'[1])
             /\ \A c \in Crops : inventory'[c] = 0
             /\ num_silos' = 0 /\ ~silo_mode' /\ selected_silo_tile' = NoTile
             /\ selected_plant_type' = PlantNames[1]
             /\ price_update_timer' = 0
             /\ price_histories' = FreshPriceHistories
      ]_vars

\* the program was started and has a fresh session
StartedFresh ==
    /\ ticks_left < MaxLaunches
    /\ money = STARTING_MONEY * MS
    /\ game_time = 0
    /\ \A t \in TileIds : ~tiles[t].purchased

\* C15: load validation is field-local.  An unknown crop name is dropped
\* where it stands (the inventory key is ignored, the plot gets no plant, the
\* selection falls back to the first crop); a numeric field (money,
\* game_time, price_update_timer, an inventory count, the worker count) that
\* holds no number gets that field's default, and every other well-formed
\* field of the document is still loaded.
LoadIsFieldLocal ==
    [][\A file \in SaveFiles :
          (file.exists /\ file.is_dict /\ Launch(file)) =>
             LET data == file.data
                 IsNumber(path) == path \notin data.non_numeric
             IN  /\ money' = IF IsNumber(<<"money">>) THEN data.money
                              ELSE STARTING_MONEY * MS
                 /\ game_time' = IF IsNumber(<<"game_time">>) THEN data.game_time
                                  ELSE 0
                 /\ price_update_timer' =
                       IF IsNumber(<<"price_update_timer">>)
                       THEN data.price_update_timer ELSE 0
                 /\ \A c \in Crops :
                       inventory'[c] = IF IsNumber(<<"inventory", c>>)
                                       THEN data.inventory[c] ELSE 0
                 /\ DOMAIN inventory' = Crops
                 /\ Len(workers') = IF IsNumber(<<"workers">>) THEN data.workers
                                     ELSE 1
                 /\ selected_plant_type' =
                       IF data.selected_plant_type \in Crops
                       THEN data.selected_plant_type ELSE PlantNames[1]
                 /\ \A t \in TileIds :
                       /\ tiles'[t].purchased = data.tiles[t].purchased
                       /\ tiles'[t].has_silo = data.tiles[t].has_silo
                       /\ tiles'[t].plant =
                             IF data.tiles[t].plant.type \in Crops
                             THEN data.tiles[t].plant ELSE NoPlant
      ]_vars

\* C16: tick is a no-op once game_over holds: a loop iteration in a session
\* that is over changes neither game_time nor money, workers, plots,
\* inventory, the price timer or the prices, nor any other part of the
\* session.
TickAfterGameOverIsNoOp ==
    [][(TickStep /\ game_over) =>
          UNCHANGED <<money, game_time, game_over, paused, tiles, workers,
                      inventory, num_silos, silo_mode, selected_silo_tile,
                      selected_plant_type, price_update_timer, price_histories>>
      ]_vars

\* the player did nothing: the first iteration ended the session and the
\* loop has run on after it
LoopRanOnAfterTheEnd ==
    /\ game_over
    /\ intents_left = LateIntents
    /\ ticks_left = 0
    /\ game_time = GAME_DURATION * MS

\* C17: the lifecycle Running <-> Paused -> GameOver.  While the session is
\* not over toggle_pause flips paused, in either direction; GameOver is
\* entered only by a loop iteration in which game_time reaches the session
\* duration; in GameOver toggle_pause changes nothing; only the reset leaves
\* GameOver, and it leaves a fresh session: money 30000, time 0, every plot
\* unpurchased and empty, an empty inventory, no silos, one worker, not
\* paused, not over.
SessionLifecycle ==
    [][
       /\ (TogglePause /\ ~game_over) => (paused' = ~paused /\ ~game_over')
       /\ (~game_over /\ game_over') =>
             (TickStep /\ ~paused /\ game_time < GAME_DURATION * MS
                       /\ game_time' >= GAME_DURATION * MS)
       /\ (TogglePause /\ game_over) =>
             UNCHANGED <<money, game_time, game_over, paused, tiles, workers,
                         inventory, num_silos, silo_mode, selected_silo_tile,
                         selected_plant_type, price_update_timer, price_histories>>
       /\ (game_over /\ ~game_over') =>
             /\ EventStep
             /\ money' = STARTING_MONEY * MS
             /\ game_time' = 0
             /\ \A t \in TileIds : tiles'[t] = FreshTile
             /\ \A c \in Crops : inventory'[c] = 0
             /\ num_silos' = 0
             /\ Len(workers') = 1
             /\ ~paused'
      ]_vars

\* the session ran to its end in the first iteration and the player's one
\* intent, the reset, has replaced it with a fresh session
FreshAfterGameOver ==
    /\ ticks_left = LateTicks - 1
    /\ intents_left = LateIntents - 1
    /\ ~game_over /\ ~paused
    /\ game_time = 0
    /\ money = STARTING_MONEY * MS

\* the step leaves money, every plot, the inventory, the silo count and the
\* worker list as they were
NothingBought == UNCHANGED <<money, tiles, inventory, num_silos, workers>>

\* C18: insufficient funds refuse silently.  For buy_land, the silo
\* placement, queue_seed and buy_worker alike, when money is below the cost
\* the intent leaves money, every plot, the inventory, num_silos and the
\* worker list exactly as they were.
RefusedForLackOfFunds ==
    [][
       /\ \A t \in TileIds :
             /\ (BuyLand(t) /\ money < LAND_COST * MS) => NothingBought
             /\ (PlaceSilo(t) /\ money < SILO_COST * MS) => NothingBought
             /\ (QueueSeed(t)
                   /\ money < SeedPrice(price_histories, selected_plant_type)) =>
                   NothingBought
       /\ (BuyWorker /\ money < WORKER_COST * MS) => NothingBought
      ]_vars

\* the player with 49 has spent every intent and has what the save held: 49,
\* one worker, one silo, plot 1 bare and plot 2 not bought
BrokePlayerKeptEverything ==
    /\ intents_left = 0
    /\ ticks_left = PoorTicks
    /\ money = 49 * MS
    /\ Len(workers) = 1
    /\ num_silos = 1
    /\ tiles[1] = [FreshTile EXCEPT !.purchased = TRUE]
    /\ tiles[2] = FreshTile

\* C19: each crop's price history is bounded: in every reachable state it
\* has at most PRICE_HISTORY_LENGTH (10) entries; each price update appends
\* the new price base_price * multiplier as the newest entry and, on
\* overflow, evicts the oldest entry and keeps the others in order.
PriceHistoryBounded ==
    /\ [](\A c \in Crops :
            Len(price_histories[c].history) <= PRICE_HISTORY_LENGTH)
    /\ [][TickStep =>
            \A c \in Crops :
               LET old == price_histories[c].history
                   new == price_histories'[c].history
                   price == price_histories[c].base_price
                            * price_histories'[c].current_multiplier
               IN IF Len(old) < PRICE_HISTORY_LENGTH
                  THEN new = old \o <<price>>
                  ELSE new = Tail(old) \o <<price>>
         ]_vars

\* the plots a worker may be sent to at time now, by the priority of its
\* jobs: the silos if it carries a crop; else the purchased plots without a
\* silo that have a pending seed, if there is one; else the plots whose plant
\* is ready
Jobs(w, now) ==
    IF Carrying(w) THEN {t \in TileIds : tiles[t].has_silo}
    ELSE LET pending == {t \in TileIds : /\ tiles[t].pending_plant_type # NoCrop
                                          /\ tiles[t].purchased
                                          /\ ~tiles[t].has_silo}
         IN IF pending # {} THEN pending
            ELSE {t \in TileIds :
                    /\ HasPlant(tiles[t])
                    /\ now - tiles[t].plant.planted_time
                          >= plant_types[tiles[t].plant.type].grow_time * MS}

\* t is the nearest of the plots of S to w, the first in grid order among
\* those at the same distance
NearestOf(w, S, t) ==
    /\ t \in S
    /\ \A u \in S : Dist2(w, t) <= Dist2(w, u)
    /\ \A u \in S : Dist2(w, u) = Dist2(w, t) => t <= u

\* C20: target selection follows a strict priority.  A worker without a
\* target that carries a crop is sent to the nearest silo, or nowhere if
\* there is none, never to a pending or ready plot; one that carries nothing
\* is sent to the nearest plot with a pending seed whenever there is one, and
\* to the nearest ready plant only when there is none; of several plots at
\* the same distance the first in grid order is taken.  (Stated for the
\* updates in which no plot changes, so that every worker sees the plots
\* of the state before; a worker that already stands on the chosen plot
\* acts there instead of keeping it as target.)
TargetByPriority ==
    [][(UpdateStep /\ tiles' = tiles) =>
          \A i \in 1..Len(workers) :
             workers[i].target_tile = NoTile =>
                LET w == workers[i]
                    jobs == Jobs(w, game_time')
                IN /\ jobs = {} =>
                         /\ workers'[i].target_tile = NoTile
                         /\ workers'[i].x = w.x /\ workers'[i].y = w.y
                   /\ \A t \in jobs :
                         (NearestOf(w, jobs, t) /\ ~AtPlot(w, t)) =>
                            workers'[i].target_tile = t
                   /\ workers'[i].target_tile # NoTile =>
                         NearestOf(w, jobs, workers'[i].target_tile)
      ]_vars

\* a worker that picked the Wheat of plot 2 at the plot's centre, half-way
\* between the silos on plots 1 and 3, was sent to the first of the two and
\* has made its first step of 0.3 s towards it
SentToFirstOfTwoSilos ==
    /\ tiles[1].has_silo /\ tiles[3].has_silo
    /\ \E i \in 1..Len(workers) :
          /\ Carrying(workers[i])
          /\ workers[i].target_tile = 1
          /\ workers[i].x = CenterX(2) - ((WORKER_SPEED * 300) \div MS)
          /\ workers[i].y = CenterY(2)

\* worker i has no crop and a target on which nothing is left to do at time
\* now: no pending seed and no ready plant
HasStaleTarget(i, now) ==
    /\ ~Carrying(workers[i])
    /\ workers[i].target_tile # NoTile
    /\ LET tile == tiles[workers[i].target_tile]
       IN /\ tile.pending_plant_type = NoCrop
          /\ ~(HasPlant(tile)
               /\ now - tile.plant.planted_time
                     >= plant_types[tile.plant.type].grow_time * MS)

\* the workers that start to carry crop c in the step
PickedUp(c) ==
    {i \in 1..Len(workers) :
        ~Carrying(workers[i]) /\ workers'[i].carried_plant_type = c}

\* C21: stale targets are dropped when workers race for the same job.  When
\* two workers without a crop have the same plot as target and the one that
\* stands on it plants its pending seed or picks its ready plant, the other
\* no longer has that plot as target after its next update, in the same
\* loop iteration if it comes later in the worker list and in the next
\* iteration if it comes earlier; it does nothing on the plot.  So one
\* pending seed yields exactly one plant and one ready plant exactly one
\* picked crop.
StaleTargetDropped ==
    [][UpdateStep =>
          /\ \A j \in 1..Len(workers) :
                HasStaleTarget(j, game_time') =>
                   /\ workers'[j].target_tile # workers[j].target_tile
                   /\ tiles'[workers[j].target_tile] = tiles[workers[j].target_tile]
          /\ \A i, j \in 1..Len(workers) :
                (/\ i < j
                 /\ ~Carrying(workers[i]) /\ ~Carrying(workers[j])
                 /\ workers[i].target_tile # NoTile
                 /\ workers[j].target_tile = workers[i].target_tile
                 /\ AtPlot(workers[i], workers[i].target_tile)
                 /\ tiles'[workers[i].target_tile] # tiles[workers[i].target_tile]) =>
                    workers'[j].target_tile # workers[j].target_tile
          /\ \A c \in Crops :
                Cardinality(PickedUp(c))
                   = Cardinality({t \in TileIds : /\ tiles[t].plant.type = c
                                                  /\ ~HasPlant(tiles'[t])})
          /\ \A t \in TileIds :
                (tiles[t].pending_plant_type # NoCrop
                   /\ tiles'[t].pending_plant_type = NoCrop) =>
                   tiles'[t].plant =
                      PlantInstance(tiles[t].pending_plant_type, game_time')
      ]_vars

\* two workers walked to the ripe Wheat of plot 1 together; the first picked
\* it, the second stands on the plot without crop and without target
RaceLoserIdle ==
    /\ Len(workers) = 2
    /\ ~HasPlant(tiles[1]) /\ tiles[1].pending_plant_type = NoCrop
    /\ workers[1].carried_plant_type = "Wheat"
    /\ ~Carrying(workers[2])
    /\ workers[2].target_tile = NoTile
    /\ AtPlot(workers[2], 1)

\* worker i stands on its target plot t
AtTarget(i, t) == workers[i].target_tile = t /\ AtPlot(workers[i], t)

\* no worker that is updated before worker i stands on plot t, so that
\* worker i finds the plot as it was before the update
FirstAt(i, t) == \A j \in 1..(i - 1) : ~AtPlot(workers[j], t)

\* worker i has stayed where it was and has no target
StoppedWithoutTarget(i) ==
    /\ workers'[i].target_tile = NoTile
    /\ workers'[i].x = workers[i].x
    /\ workers'[i].y = workers[i].y

\* C22: every arrival resolves exactly one action and clears the worker's
\* target in the same tick.  After a deposit attempt (made or refused for
\* lack of room), after planting a pending seed and after a pick attempt
\* (made or refused) the worker has no target and has not moved; the worker
\* that delivered or planted carries nothing afterwards, the worker whose
\* deposit was refused still carries its crop, and a plot whose pick was
\* refused keeps its plant: nothing is tried twice within the tick.
ArrivalClearsTarget ==
    [][UpdateStep =>
          \A i \in 1..Len(workers) : \A t \in TileIds :
             AtTarget(i, t) =>
                LET w == workers[i]
                IN /\ (Carrying(w) /\ tiles[t].has_silo) =>
                         /\ StoppedWithoutTarget(i)
                         /\ workers'[i].carried_plant_type \in {NoCrop, w.carried_plant_type}
                         /\ tiles'[t] = tiles[t]
                   /\ (~Carrying(w) /\ FirstAt(i, t)
                         /\ tiles[t].pending_plant_type # NoCrop
                         /\ ~HasPlant(tiles[t])) =>
                         /\ StoppedWithoutTarget(i)
                         /\ ~Carrying(workers'[i])
                         /\ tiles'[t].plant =
                               PlantInstance(tiles[t].pending_plant_type, game_time')
                         /\ tiles'[t].pending_plant_type = NoCrop
                   /\ (~Carrying(w) /\ FirstAt(i, t)
                         /\ tiles[t].pending_plant_type = NoCrop
                         /\ is_ready(tiles[t].plant, game_time')) =>
                         /\ StoppedWithoutTarget(i)
                         /\ \/ /\ workers'[i].carried_plant_type = tiles[t].plant.type
                               /\ ~HasPlant(tiles'[t])
                            \/ /\ ~Carrying(workers'[i])
                               /\ tiles'[t] = tiles[t]
      ]_vars

\* a worker has sown plot 2: the Wheat is as old as the session has run
\* since, and the worker stands on the plot without target
StoppedAfterPlanting ==
    /\ tiles[2].plant.type = "Wheat"
    /\ tiles[2].plant.planted_time > 300 * MS - 300
    /\ \E i \in 1..Len(workers) :
          /\ AtPlot(workers[i], 2)
          /\ workers[i].target_tile = NoTile
          /\ ~Carrying(workers[i])

SiloModeIsSingleShot ==
    [][\A t \in TileIds : (ClickTile(t) /\ silo_mode) => ~silo_mode']_vars

\* C25: silo selection gates selling.  The selected silo is always either
\* empty or a plot with has_silo; a click on a silo plot outside silo mode
\* selects it; a click on grid space that hits no plot clears the
\* selection; a sale (an intent that empties a stocked inventory and leaves
\* the session's clock alone) happens only in a state where a silo is
\* selected and the session is not over.
SelectionGatesSelling ==
    /\ [](selected_silo_tile # NoTile => tiles[selected_silo_tile].has_silo)
    /\ [][
          /\ \A t \in TileIds :
                (ClickTile(t) /\ tiles[t].has_silo /\ ~silo_mode) =>
                   selected_silo_tile' = t
          /\ ClickNoTile => selected_silo_tile' = NoTile
          /\ (EventStep /\ ~ResetGame
                /\ (inventory' # inventory \/ money' > money)) =>
                (selected_silo_tile # NoTile /\ ~game_over)
       ]_vars

\* the stock of the farm was sold while the silo on plot 3 was selected
SoldWithSiloSelected ==
    /\ selected_silo_tile = 3
    /\ tiles[3].has_silo
    /\ inventory_total(inventory) = 0
    /\ money > 3100 * MS
    /\ game_time >= 300 * MS - 300

\* C26: workers are dismissed LIFO.  dismiss_worker removes the worker added
\* last and leaves every earlier worker (position, target, carried crop) as
\* it was; it is a no-op when there are no workers or the session is over.
\* buy_worker appends one worker at the spawn point and deducts exactly
\* worker_cost (2000), only when money >= worker_cost and the session is
\* not over.
WorkersDismissedLIFO ==
    [][
       /\ DismissWorker =>
             /\ money' = money
             /\ IF workers # <<>> /\ ~game_over
                THEN /\ Len(workers') = Len(workers) - 1
                     /\ \A i \in 1..Len(workers') : workers'[i] = workers[i]
                ELSE workers' = workers
       /\ BuyWorker =>
             IF money >= WORKER_COST * MS /\ ~game_over
             THEN /\ money' = money - WORKER_COST * MS
                  /\ Len(workers') = Len(workers) + 1
                  /\ \A i \in 1..Len(workers) : workers'[i] = workers[i]
                  /\ workers'[Len(workers')] =
                        [x |-> WINDOW_WIDTH \div 2,
                         y |-> WINDOW_HEIGHT \div 2 - UI_PANEL_HEIGHT,
                         target_tile |-> NoTile, carried_plant_type |-> NoCrop]
             ELSE money' = money /\ workers' = workers
      ]_vars

\* the first worker had picked the Wheat of plot 1 when the player's one
\* intent dismissed the second: the worker with the crop is the one left
FirstWorkerKeptItsCrop ==
    /\ intents_left = CrewIntents - 1
    /\ ticks_left = CrewTicks - 2
    /\ ~game_over
    /\ Len(workers) = 1
    /\ workers[1].carried_plant_type = "Wheat"

\* C27: money goes negative only through upkeep.  Each running tick deducts
\* exactly upkeep_per_second (5) * the number of workers * dt, with no lower
\* bound.  Every paying intent that succeeds (land, silo, seed, worker)
\* does so only with money at least its cost, and so leaves money >= 0; no
\* paying intent succeeds while money is negative.
NegativeOnlyThroughUpkeep ==
    [][
       /\ UpdateStep =>
             money' = money - 5 * Len(workers) * (game_time' - game_time)
       /\ (EventStep /\ \E t \in TileIds : LandBoughtOn(t)) =>
             (money >= LAND_COST * MS /\ money' = money - LAND_COST * MS)
       /\ (EventStep /\ \E t \in TileIds : SiloPlacedOn(t)) =>
             (money >= SILO_COST * MS /\ money' = money - SILO_COST * MS)
       /\ \A t \in TileIds :
             (EventStep /\ SeedQueuedOn(t)) =>
                LET price == SeedPrice(price_histories, tiles'[t].pending_plant_type)
                IN  money >= price /\ money' = money - price
       /\ (BuyWorker /\ Len(workers') > Len(workers)) =>
             (money >= WORKER_COST * MS /\ money' = money - WORKER_COST * MS)
       /\ (EventStep /\ money' < money) => (money >= 0 /\ money' >= 0)
       /\ (EventStep /\ money < 0 /\ ~ResetGame) =>
             /\ money' >= money
             /\ tiles' = tiles
             /\ num_silos' = num_silos
             /\ Len(workers') <= Len(workers)
      ]_vars

\* the one dollar of the save went on the upkeep of the first iteration, the
\* player is 0.50 in debt and has used every intent
InDebtAfterUpkeep ==
    /\ money = 1 * MS - 5 * 1 * 300
    /\ ticks_left = PoorTicks - 1
    /\ intents_left = 0
    /\ Len(workers) = 1

\* the price updates a fresh session has made: its history starts with one
\* entry and gains one per update (up to PRICE_HISTORY_LENGTH)
PriceUpdates(c) == Len(price_histories[c].history) - 1

\* C28: the price-update timer carries its overflow.  When the accumulated
\* timer reaches the interval (20 s) in a tick, the prices are updated
\* exactly once and the timer is reduced by the interval, not set to zero;
\* so over any run of ticks with dt <= interval the number of price updates
\* is floor(elapsed running time / interval), and the timer is below the
\* interval after every tick.
TimerCarriesOverflow ==
    /\ [](/\ price_update_timer < 20 * MS
          /\ price_update_timer = game_time % (20 * MS)
          /\ \A c \in Crops : PriceUpdates(c) = game_time \div (20 * MS))
    /\ [][UpdateStep =>
            LET dt == game_time' - game_time
            IN  IF price_update_timer + dt >= 20 * MS
                THEN /\ price_update_timer' = price_update_timer + dt - 20 * MS
                     /\ \A c \in Crops :
                           Len(price_histories'[c].history) =
                              Len(price_histories[c].history) + 1
                ELSE /\ price_update_timer' = price_update_timer + dt
                     /\ price_histories' = price_histories
         ]_vars

\* two frames of 15 s: the prices were updated once, at 30 s, and the timer
\* kept the 10 s that the second frame ran past the interval
TenSecondsCarried ==
    /\ game_time = 30 * MS
    /\ ticks_left = TimerTicks - 2
    /\ price_update_timer = 10 * MS
    /\ \A c \in Crops : PriceUpdates(c) = 1

\* the plots that carry a silo
SiloPlots == {t \in TileIds : tiles[t].has_silo}

\* C29: num_silos never decreases within a session and, in every state
\* reachable from a fresh session or from loading a snapshot, equals the
\* number of plots with has_silo = true, so that storage_capacity is
\* base_storage (50) + silo_capacity (50) * the number of silo plots.
NumSilosCountsSiloPlots ==
    /\ [](/\ num_silos = Cardinality(SiloPlots)
          /\ storage_capacity(num_silos) = 50 + 50 * Cardinality(SiloPlots))
    /\ [][ResetGame \/ num_silos' >= num_silos]_vars

\* C30: storage is never exceeded.  In every state reachable from a fresh
\* session, with any number of workers harvesting and delivering in the
\* same tick, every inventory count is >= 0 and inventory_total is at most
\* storage_capacity.
StorageNeverExceeded ==
    /\ \A c \in Crops : inventory[c] >= 0
    /\ inventory_total(inventory) <= 50 + 50 * num_silos

\* both plots are harvested: one worker's delivery filled the last free
\* slot of the storage, and the other worker still has its crop in hand
LastSlotFilled ==
    /\ inventory_total(inventory) = storage_capacity(num_silos)
    /\ \A t \in TileIds : ~HasPlant(tiles[t]) /\ tiles[t].pending_plant_type = NoCrop
    /\ Len(workers) = 2
    /\ ~Carrying(workers[1])
    /\ Carrying(workers[2])

\* the workers that carry crop c, before and after the step
CarriersOf(c) == {i \in 1..Len(workers) : workers[i].carried_plant_type = c}
CarriersAfter(c) == {i \in 1..Len(workers') : workers'[i].carried_plant_type = c}

\* the plots whose plant of crop c is gone after the step
Harvested(c) ==
    {t \in TileIds : /\ HasPlant(tiles[t]) /\ tiles[t].plant.type = c
                     /\ ~HasPlant(tiles'[t])}

\* an update takes ripe plants only, moves each into a worker's hands, and
\* moves crops from hands to the inventory: per crop, what is carried and
\* stored grows by the plants taken and by nothing else
CropsKeptByUpdate ==
    \A c \in Crops :
       /\ \A t \in Harvested(c) :
             game_time' - tiles[t].plant.planted_time >= plant_types[c].grow_time * MS
       /\ inventory'[c] = inventory[c] + Cardinality(Delivered(c))
       /\ Cardinality(CarriersAfter(c)) + inventory'[c]
             = Cardinality(CarriersOf(c)) + inventory[c] + Cardinality(Harvested(c))

\* an intent adds no crop to the inventory or to a worker's hands; stored
\* crops leave by a sale of the whole inventory and carried crops with a
\* dismissed worker
CropsKeptByIntent ==
    \A c \in Crops :
       /\ inventory'[c] <= inventory[c]
       /\ inventory'[c] < inventory[c] =>
             /\ \A d \in Crops : inventory'[d] = 0
             /\ money' = money + WorthOf(Crops)
       /\ CarriersAfter(c) \subseteq CarriersOf(c)
       /\ CarriersAfter(c) # CarriersOf(c) =>
             /\ Len(workers') = Len(workers) - 1
             /\ \A i \in 1..Len(workers') : workers'[i] = workers[i]

WalksToRipePlot(t) ==
    /\ ~game_over
    /\ HasPlant(tiles[t])
    /\ game_time - tiles[t].plant.planted_time
          >= plant_types[tiles[t].plant.type].grow_time * MS
    /\ \E i \in 1..Len(workers) :
          ~Carrying(workers[i]) /\ workers[i].target_tile = t

\* C32: movement converges without overshoot correction.  A worker whose
\* target stays valid moves by speed * dt per tick along the straight line
\* to the target centre and, for every tick length the loop can deliver,
\* comes within the arrival threshold (4 units) and performs its arrival
\* action after finitely many ticks: a worker without a crop that walks to
\* a ripe plot, with room in the storage, picks its plant.
WalkEndsInArrival ==
    \A t \in TileIds : WalksToRipePlot(t) ~> ~HasPlant(tiles[t])

\* the session has at least six seconds, twenty frames of 0.3 s, to run
TimeToWork == ~game_over /\ game_time <= GAME_DURATION * MS - 6000

\* a seed waits on plot t while the session has a worker and time to work
SeedWaits(t) ==
    /\ TimeToWork
    /\ workers # <<>>
    /\ tiles[t].pending_plant_type # NoCrop

\* worker i carries a crop while a silo exists and the storage has room
CropWaits(i) ==
    /\ TimeToWork
    /\ i <= Len(workers)
    /\ Carrying(workers[i])
    /\ \E t \in TileIds : tiles[t].has_silo
    /\ inventory_total(inventory) < storage_capacity(num_silos)

GameOverFreezesEconomy ==
    [][(EventStep /\ game_over /\ ~ResetGame) =>
          /\ money' = money
          /\ \A t \in TileIds :
                /\ tiles'[t].purchased = tiles[t].purchased
                /\ tiles'[t].plant = tiles[t].plant
                /\ tiles'[t].pending_plant_type = tiles[t].pending_plant_type
                /\ tiles'[t].has_silo = tiles[t].has_silo
          /\ inventory' = inventory
          /\ num_silos' = num_silos
          /\ workers' = workers
      ]_vars

\* the session is over, the silo is selected and the silo mode is on, and
\* the player has used every intent: the money is what the last iteration
\* left, the 5 Wheat are in the storage, plot 2 is bare and both workers are
\* there
ClickedOnAfterTheEnd ==
    /\ game_over
    /\ intents_left = 0
    /\ selected_silo_tile = 3
    /\ money = 3100 * MS - 5 * 2 * 300
    /\ inventory["Wheat"] = 5
    /\ tiles[2].purchased /\ ~tiles[2].has_silo /\ tiles[2].pending_plant_type = NoCrop
    /\ Len(workers) = 2

====
